---- MODULE Spec2Model ----
(***************************************************************************)
(* Model of the Glicko-2 multiplayer rating application (gui.py,           *)
(* database.py, glicko2_calculator.py).                                    *)
(*                                                                         *)
(* Real numbers.  The program computes in IEEE doubles; the model computes *)
(* in fixed point.  Internal-scale quantities (mu, phi, volatility, v,     *)
(* delta, x, outcomes) are integers counting millionths (U = 10^6);        *)
(* public-scale ratings and RDs are integers counting thousandths of a     *)
(* rating point.  Every intermediate value stays below 2^31.  Products and *)
(* quotients are rounded to the nearest unit, as a double rounds to the    *)
(* nearest representable value.                                            *)
(***************************************************************************)
EXTENDS Integers, Sequences, FiniteSets, TLC

\* ------------------------------------------------------------------------
\* Fixed-point arithmetic
\* ------------------------------------------------------------------------

U == 1000000

Abs(x) == IF x < 0 THEN -x ELSE x

Min(a, b) == IF a < b THEN a ELSE b

Max(a, b) == IF a > b THEN a ELSE b

\* y, with x evaluated first.  The code computes its locals statement by
\* statement; TLC evaluates a definition where its value is first needed,
\* and would otherwise hold a whole computation pending on its stack.
InOrder(x, y) == IF x = x THEN y ELSE y

\* a * b for non-negative fixed-point a, b, by halves so that no partial
\* product leaves 32 bits
MulPos(a, b) ==
    LET ah == a \div 1000
        al == a % 1000
        bh == b \div 1000
        bl == b % 1000
        t  == ah * bl + al * bh
        w  == al * bl
    IN  ah * bh + (t + (w + 500) \div 1000 + 500) \div 1000

\* the sign of a product or quotient of a and b
SignOf(a, b) == IF (a < 0) = (b < 0) THEN 1 ELSE -1

MulU(a, b) == SignOf(a, b) * MulPos(Abs(a), Abs(b))

\* a / b for non-negative fixed-point a, b > 0, to six decimals, by long
\* division, a decimal digit at a time so that no remainder times ten
\* leaves 32 bits; rounded up from half a unit on when rnd
RECURSIVE DivPos(_, _, _)
DivPos(a, b, rnd) ==
    IF b >= 200000000 THEN DivPos(a \div 10, b \div 10, rnd)
    ELSE LET r0 == a % b
             r1 == (r0 * 10) % b
             r2 == (r1 * 10) % b
             r3 == (r2 * 10) % b
             r4 == (r3 * 10) % b
             r5 == (r4 * 10) % b
             r6 == (r5 * 10) % b
         IN  ((a \div b) * U + ((r0 * 10) \div b) * 100000
                + (((r1 * 10) \div b) * 10000 + ((r2 * 10) \div b) * 1000))
               + ((((r3 * 10) \div b) * 100 + ((r4 * 10) \div b) * 10)
                    + ((r5 * 10) \div b + (IF rnd /\ 2 * r6 >= b THEN 1 ELSE 0)))

\* a / b rounded to the nearest unit
DivU(a, b) == SignOf(a, b) * DivPos(Abs(a), Abs(b), TRUE)

\* a / b truncated toward zero
DivT(a, b) == SignOf(a, b) * DivPos(Abs(a), Abs(b), FALSE)

RECURSIVE ISqrtIter(_, _)
ISqrtIter(n, x) ==
    IF (x + n \div x) \div 2 >= x THEN x
    ELSE ISqrtIter(n, (x + n \div x) \div 2)

\* floor of the integer square root, from a power of two above it
ISqrt(n) ==
    IF n = 0 THEN 0
    ELSE ISqrtIter(n, IF n >= 4^15 THEN 46341
                      ELSE 2^(CHOOSE j \in 1 .. 15 : 4^j > n))

\* math.sqrt on fixed point (a >= 0): integer root refined by Newton steps
\* y -> (y + a / y) / 2, the last one rounded
SqrtStep(a, y, rnd) == (y + DivU(a, y) + rnd) \div 2

SqrtU(a) ==
    IF a = 0 THEN 0
    ELSE LET y0 == Max(ISqrt(a) * 1000, 1)
             y1 == SqrtStep(a, y0, 0)
             y2 == SqrtStep(a, y1, 0)
         IN  InOrder(<< y0, y1, y2 >>, SqrtStep(a, y2, 1))

LN2 == 693147

\* e^r for 0 <= r <= ln 2, by its Taylor series up to r^9 / 9!
ExpFrac(r) ==
    LET t2 == MulU(r, r) \div 2
        t3 == MulU(t2, r) \div 3
        t4 == MulU(t3, r) \div 4
        t5 == MulU(t4, r) \div 5
        t6 == MulU(t5, r) \div 6
        t7 == MulU(t6, r) \div 7
        t8 == MulU(t7, r) \div 8
        t9 == MulU(t8, r) \div 9
    IN  ((U + r) + (t2 + t3)) + ((t4 + t5) + ((t6 + t7) + (t8 + t9)))

\* math.exp on fixed point: e^x = 2^n * e^r with x = n ln 2 + r.  Below
\* 2^-30 the result is 0 at this resolution.
ExpShift(f, n) ==
    IF n >= 0 THEN f * 2^n ELSE (f + 2^(0 - n) \div 2) \div 2^(0 - n)

ExpScale(x, n) == IF n < -30 THEN 0 ELSE ExpShift(ExpFrac(x - n * LN2), n)

ExpU(x) ==
    ExpScale(x, IF x >= 0 THEN x \div LN2 ELSE 0 - ((0 - x) \div LN2 + 1))

\* the k with U <= y * 2^(-k) < 2U
LnExp(y) ==
    IF y >= U THEN CHOOSE k \in 0 .. 30 : y \div 2^k < 2 * U
    ELSE 0 - (CHOOSE k \in 1 .. 20 : y * 2^k >= U)

\* y scaled into [U, 2U) by the power 2^k
LnNorm(y, k) == IF k >= 0 THEN y \div 2^k ELSE y * 2^(0 - k)

\* 2 atanh(z), by its series up to z^13 / 13
LnSeries(z) ==
    LET z2  == MulU(z, z)
        z3  == MulU(z, z2)
        z5  == MulU(z3, z2)
        z7  == MulU(z5, z2)
        z9  == MulU(z7, z2)
        z11 == MulU(z9, z2)
        z13 == MulU(z11, z2)
    IN  2 * (((z + z3 \div 3) + (z5 \div 5 + z7 \div 7))
               + ((z9 \div 9 + z11 \div 11) + z13 \div 13))

\* ln(m * 2^k), m in [U, 2U)
LnFrom(m, k) == k * LN2 + LnSeries(DivU(m - U, m + U))

\* math.log on fixed point (y > 0): ln y = k ln 2 + 2 atanh((m-1)/(m+1))
LnOf(y, k) == LnFrom(LnNorm(y, k), k)

LnU(y) == LnOf(y, LnExp(y))

\* ------------------------------------------------------------------------
\* Glicko-2 constants (gui.py 14-17) in fixed point
\* ------------------------------------------------------------------------

PI_SQUARED == 9869604

SCALING_FACTOR == 173717800

EPSILON == 1

MAX_RATING_CHANGE == 250000000

TAU == 500000

\* micro-units to thousandths, to the nearest
RoundMilli(x) == (x + 500) \div 1000

\* ------------------------------------------------------------------------
\* class Player
\* ------------------------------------------------------------------------

NoDate == -1

\* Player.__init__: last_played_date falls back to season_start (the callers
\* of this model always pass season_start), games_today starts at 0
Player(id, name, rating, rd, volatility, last_played_date, season_start, games) ==
    [ id |-> id, name |-> name, rating |-> rating, rd |-> rd,
      volatility |-> volatility,
      last_played_date |-> IF last_played_date # NoDate THEN last_played_date
                           ELSE season_start,
      games_today |-> 0, season_start |-> season_start, games |-> games ]

\* a list comprehension: the list, built in full where it is written
List(f) == SubSeq(f, 1, Len(f))

to_glicko2_scale(p) ==
    << DivU((p.rating - 1500000) * 1000, SCALING_FACTOR),
       DivU(p.rd * 1000, SCALING_FACTOR) >>

from_glicko2_scale(p, mu, phi) ==
    [ p EXCEPT !.rating = RoundMilli(MulU(mu, SCALING_FACTOR)) + 1500000,
               !.rd = RoundMilli(MulU(phi, SCALING_FACTOR)) ]

days_since_last_played(p, current_date) == current_date - p.last_played_date

glicko2_g(phi) ==
    LET p2 == MulU(phi, phi)
        q  == DivU(3 * p2, PI_SQUARED)
        s  == SqrtU(U + q)
    IN  InOrder(<< p2, q, s >>, DivU(U, s))

\* ------------------------------------------------------------------------
\* update_volatility: the Newton iteration on x = ln(sigma^2)
\* ------------------------------------------------------------------------

\* the loop body from r = delta / d on, with ex = math.exp(x0) and
\* pv = phi^2 + v.  h2's quotients by d^2 and d^3 are taken factor by factor,
\* which keeps every intermediate in range.
NewtonQuotient(a, x0, ex, pv, r) ==
    LET d  == pv + ex
        hx == ex \div 2
        t2 == MulU(TAU, TAU)
        rr == MulU(r, r)
        h1 == (0 - DivU(x0 - a, t2)) - DivU(hx, d) + MulU(hx, rr)
        h2 == (0 - DivU(U, t2)) - MulU(DivU(hx, d), DivU(pv, d))
                 + MulU(MulU(hx, rr), DivU(pv - ex, d))
    IN  InOrder(<< r, h1, h2 >>, x0 - DivT(h1, h2))

NewtonRatio(a, x0, ex, pv, delta) ==
    InOrder(<< ex, pv >>, NewtonQuotient(a, x0, ex, pv, DivU(delta, pv + ex)))

\* one pass of the loop body: x1 from x0
NewtonStep(phi, v, delta, a, x0) ==
    NewtonRatio(a, x0, ExpU(x0), MulU(phi, phi) + v, delta)

\* the test that ends a pass of the loop, x1 being what the pass made of x0
RECURSIVE NewtonLoop(_, _, _, _, _, _)
NewtonLoop(phi, v, delta, a, x0, x1) ==
    IF Abs(x1 - x0) < EPSILON THEN x1
    ELSE NewtonLoop(phi, v, delta, a, x1, NewtonStep(phi, v, delta, a, x1))

\* update_volatility from a = math.log(volatility ** 2) on
SolveFrom(phi, v, delta, a) ==
    InOrder(<< delta, a >>,
        ExpU(NewtonLoop(phi, v, delta, a, a, NewtonStep(phi, v, delta, a, a)) \div 2))

update_volatility(mu, phi, volatility, v, delta) ==
    SolveFrom(phi, v, delta, LnU(MulU(volatility, volatility)))

\* ------------------------------------------------------------------------
\* process_game and its parts
\* ------------------------------------------------------------------------

\* math.sqrt raises ValueError on a negative argument
DecayRaises(p, game_date) ==
    /\ p.last_played_date # game_date
    /\ LET phi == DivU(p.rd * 1000, SCALING_FACTOR)
       IN  MulU(phi, phi) + MulU(p.volatility, p.volatility)
               * days_since_last_played(p, game_date) < 0

update_rd_for_inactivity(p, game_date) ==
    IF p.last_played_date # game_date
    THEN LET days     == days_since_last_played(p, game_date)
             phi      == DivU(p.rd * 1000, SCALING_FACTOR)
             phi_star == SqrtU(MulU(phi, phi) + MulU(p.volatility, p.volatility) * days)
             rd       == RoundMilli(MulU(phi_star, SCALING_FACTOR))
         IN  InOrder(<< phi, phi_star, rd >>,
                 [ p EXCEPT !.games_today = 0, !.rd = Min(rd, 350000) ])
    ELSE p

\* placements are sequences of <<player name, place>>
PlNames(placements) == { placements[i][1] : i \in DOMAIN placements }

\* tied_at_place[place]: how many entries of the match carry that place
TiedAt(placements, place) ==
    Cardinality({ i \in DOMAIN placements : placements[i][2] = place })

\* the score of one entry against another
Outcome(place, opp_place, num_players, placements) ==
    IF place < opp_place THEN U
    ELSE IF place > opp_place THEN 0
    ELSE DivU(DivU((num_players - place) * U, (num_players - 1) * U),
              TiedAt(placements, place) * U)

RECURSIVE SeqSum(_)
SeqSum(s) == IF s = << >> THEN 0 ELSE Head(s) + SeqSum(Tail(s))

\* the entries of a sequence that satisfy a test, in order
RECURSIVE OthersOf(_, _)
OthersOf(placements, name) ==
    IF placements = << >> THEN << >>
    ELSE IF Head(placements)[1] # name
         THEN << Head(placements) >> \o OthersOf(Tail(placements), name)
         ELSE OthersOf(Tail(placements), name)

\* calculate_outcomes: for every entry, the list of (opp_mu, opp_phi, outcome)
\* read from the players as they are when it is called
calculate_outcomes(placements, players, num_players) ==
    [ i \in DOMAIN placements |->
        LET opps == OthersOf(placements, placements[i][1])
        IN  [ j \in DOMAIN opps |->
                LET sc == to_glicko2_scale(players[opps[j][1]])
                IN  [ opp_mu |-> sc[1], opp_phi |-> sc[2],
                      outcome |-> Outcome(placements[i][2], opps[j][2],
                                          num_players, placements) ] ] ]

\* the quantities update_player_ratings derives from a participant's results
g_phis(results) == List([ j \in DOMAIN results |-> glicko2_g(results[j].opp_phi) ])

\* 1 / (1 + math.exp(-g * (mu - opp_mu)))
Expected(g, mu, opp_mu) ==
    LET m == MulU(g, mu - opp_mu)
        x == ExpU(0 - m)
    IN  InOrder(<< m, x >>, DivU(U, U + x))

\* E, from the list g_phis
E_from(g, mu, results) ==
    InOrder(g, List([ j \in DOMAIN results |->
                        Expected(g[j], mu, results[j].opp_mu) ]))

E(mu, results) == E_from(g_phis(results), mu, results)

tie_factor(num_players, placements) ==
    DivU(Cardinality({ i \in DOMAIN placements :
                         TiedAt(placements, placements[i][2]) > 1 }) * U,
         num_players * U)

\* sum(g * (outcome - e)), the sum that delta and mu_prime share
perf_sum(g, e, results) ==
    InOrder(e, SeqSum(List([ j \in DOMAIN results |->
                               MulU(g[j], results[j].outcome - e[j]) ])))

perf_from(g, mu, results) ==
    InOrder(g, perf_sum(g, E_from(g, mu, results), results))

performance(mu, results) == perf_from(g_phis(results), mu, results)

\* g**2 * e * (1 - e) * (1 + tie_factor)
VTerm(g, e, t) ==
    LET g2 == MulU(g, g)
        ge == MulU(g2, e)
        gf == MulU(ge, U - e)
    IN  InOrder(<< g2, ge, gf >>, MulU(gf, U + t))

\* 1 / sum(...), from the lists g_phis and E
v_sum(g, e, t, results) ==
    InOrder(<< e, t >>,
        DivU(U, SeqSum(List([ j \in DOMAIN results |-> VTerm(g[j], e[j], t) ]))))

v_from(g, mu, results, t) ==
    InOrder(g, v_sum(g, E_from(g, mu, results), t, results))

estimated_v(mu, results, num_players, placements) ==
    v_from(g_phis(results), mu, results, tie_factor(num_players, placements))

estimated_delta(mu, results, num_players, placements) ==
    MulU(MulU(estimated_v(mu, results, num_players, placements),
              performance(mu, results)),
         SqrtU((num_players - 1) * U))

\* (variant) mu_prime is not capped
updated_player_uncapped(p, mu, phi, v, perf, new_vol, num_players) ==
    LET phi_star  == SqrtU(MulU(phi, phi) + MulU(new_vol, new_vol))
        i2        == DivU(U, MulU(phi_star, phi_star)) + DivU(U, v)
        phi_prime == DivU(U, SqrtU(i2))
        mu_raw    == mu + MulU(MulU(phi_prime, phi_prime), perf)
    IN  [ from_glicko2_scale(p, mu_raw, phi_prime) EXCEPT !.volatility = new_vol ]

\* update_player_ratings from new_vol on: phi_star, phi_prime, mu_prime and
\* the capped rating change (i2 is 1 / phi_star**2 + 1 / v)
updated_player(p, mu, phi, v, perf, new_vol, num_players) ==
    LET phi_star  == SqrtU(MulU(phi, phi) + MulU(new_vol, new_vol))
        i2        == DivU(U, MulU(phi_star, phi_star)) + DivU(U, v)
        phi_prime == DivU(U, SqrtU(i2))
        mu_raw    == mu + MulU(MulU(phi_prime, phi_prime), perf)
        delta_cap == MulU(DivU(MAX_RATING_CHANGE, SCALING_FACTOR),
                          SqrtU((num_players - 1) * U))
        mu_prime  == Max(Min(mu_raw, mu + delta_cap), mu - delta_cap)
    IN  InOrder(<< new_vol, phi_star, i2, phi_prime, mu_raw, delta_cap, mu_prime >>,
            [ from_glicko2_scale(p, mu_prime, phi_prime)
              EXCEPT !.volatility = new_vol ])

\* update_player_ratings from v and the performance sum on
update_from(p, mu, phi, v, perf, num_players) ==
    InOrder(<< v, perf >>,
        updated_player(p, mu, phi, v, perf,
                       update_volatility(mu, phi, p.volatility, v,
                           MulU(MulU(v, perf), SqrtU((num_players - 1) * U))),
                       num_players))

\* (variant) the full update is made whatever is_first_game_today says
update_player_ratings_always(p, mu, phi, results, is_first_game_today, num_players, placements) ==
    update_from(p, mu, phi,
                estimated_v(mu, results, num_players, placements),
                performance(mu, results), num_players)

update_player_ratings(p, mu, phi, results, is_first_game_today, num_players, placements) ==
    IF ~is_first_game_today THEN p
    ELSE update_from(p, mu, phi,
                     estimated_v(mu, results, num_players, placements),
                     performance(mu, results), num_players)

\* (variant) the results read from the players as the loop has left them
results_for_live(outcomes, placements, players, num_players, i) ==
    calculate_outcomes(placements, players, num_players)[i]

\* the results the update loop hands to update_player_ratings for entry i:
\* those computed by calculate_outcomes before the loop
results_for(outcomes, placements, players, num_players, i) == outcomes[i]

\* what the loop does to a player after update_player_ratings
played(q, game_date) ==
    [ q EXCEPT !.last_played_date = game_date, !.games_today = q.games_today + 1 ]

\* the update loop of process_game, entry i onward
RECURSIVE update_loop(_, _, _, _, _)
update_loop(players, placements, outcomes, game_date, i) ==
    IF i > Len(placements) THEN players
    ELSE LET name == placements[i][1]
             p    == players[name]
             sc   == to_glicko2_scale(p)
         IN  InOrder(<< p, sc >>,
                 update_loop([ players EXCEPT ![name] =
                                 played(update_player_ratings(p, sc[1], sc[2],
                                            results_for(outcomes, placements, players,
                                                        Len(placements), i),
                                            p.games_today = 0, Len(placements),
                                            placements),
                                        game_date) ],
                             placements, outcomes, game_date, i + 1))

\* (variant) the decay loop runs twice over the participants
decay_all_twice(players, placements, game_date) ==
    [ n \in DOMAIN players |->
        IF n \in PlNames(placements)
        THEN update_rd_for_inactivity(update_rd_for_inactivity(players[n], game_date),
                                      game_date)
        ELSE players[n] ]

\* the players after update_rd_for_inactivity has been applied to every
\* participant
decay_all(players, placements, game_date) ==
    [ n \in DOMAIN players |->
        IF n \in PlNames(placements)
        THEN update_rd_for_inactivity(players[n], game_date)
        ELSE players[n] ]

\* process_game raises (before any update) when a decay step raises
ProcessRaises(players, placements, game_date) ==
    \E n \in PlNames(placements) : DecayRaises(players[n], game_date)

\* (variant) the outcomes are computed before the decay step
process_game_early(players, placements, game_date) ==
    LET decayed  == decay_all(players, placements, game_date)
        outcomes == calculate_outcomes(placements, players, Len(placements))
    IN  InOrder(<< decayed, outcomes >>,
                update_loop(decayed, placements, outcomes, game_date, 1))

\* process_game on the in-memory players (a function from name to Player)
process_game(players, placements, game_date) ==
    LET decayed  == decay_all(players, placements, game_date)
        outcomes == calculate_outcomes(placements, decayed, Len(placements))
    IN  InOrder(<< decayed, outcomes >>,
                update_loop(decayed, placements, outcomes, game_date, 1))

\* ------------------------------------------------------------------------
\* The store (database.py) and the handlers' state (gui.py)
\* ------------------------------------------------------------------------

VARIABLES
    players,         \* table players: id -> row
    game_history,    \* table game_history: id -> date
    placements,      \* table placements, in rowid order: rows
                     \* [game_id, player_id, placement]
    next_player_id,  \* AUTOINCREMENT counter of players
    next_game_id,    \* AUTOINCREMENT counter of game_history
    pc,              \* where the running handler stands ("idle": none runs)
    req,             \* the request the running handler was called with
    mem,             \* the running handler's objects in memory
    status,          \* the message the handler returns
    edits            \* how many delete_match / remove_player calls were made

vars == << players, game_history, placements, next_player_id, next_game_id,
           pc, req, mem, status, edits >>

store == << players, game_history, placements, next_player_id, next_game_id >>

\* bounds of the model
MaxMatches == 2

MaxEdits == 1

MaxDate == 1

\* datetime.today().date(): the model covers one day of operation; the match
\* dates themselves are typed in by the user
SessionDay == 0

\* the players the user adds, in this order: (name, rating, rd, volatility)
AddPlayerInputs ==
    << [ name |-> "a", rating |-> 1500000, rd |-> 350000, volatility |-> 60000 ],
       [ name |-> "b", rating |-> 1500000, rd |-> 350000, volatility |-> 60000 ],
       [ name |-> "c", rating |-> 1400000, rd |-> 20000, volatility |-> 200000 ] >>

\* player names in alphabetical order (ORDER BY name)
NameOrder == << "a", "b", "c" >>

Names == { NameOrder[i] : i \in DOMAIN NameOrder }

\* the match forms the user submits: the filled (player, placement) slots
MatchInputs ==
    { << <<"a", 1>>, <<"b", 2>> >>,
      << <<"b", 1>>, <<"a", 1>> >>,
      << <<"a", 2>>, <<"c", 2>> >>,
      << <<"a", 1>>, <<"b", 2>>, <<"c", 3>> >>,
      << <<"a", 1>>, <<"a", 2>> >>,
      << <<"a", 1>> >>,
      << <<"a", 1>>, <<"b", 3>> >>,
      << <<"b", 3>>, <<"a", 3>> >>,
      << <<"b", 2>>, <<"a", 2>> >>,
      << <<"a", 1>>, <<"b", 2>>, <<"c", 3>>, <<"c", 3>> >> }

MatchDates == 0 .. MaxDate

NoReq == [ op |-> "none" ]

NoMem == [ players |-> << >>, placements |-> << >>, idx |-> 0, game_id |-> 0 ]

\* --- database.py ---------------------------------------------------------

PlayerIds == DOMAIN players

\* get_player_by_name_db: the ids of the rows with that name (none or one)
IdsOfName(name) == { id \in PlayerIds : players[id].name = name }

\* a sequence of << key, item >> pairs stably sorted by key (ascending)
RECURSIVE InsertByKey(_, _)
InsertByKey(sorted, x) ==
    IF sorted = << >> THEN << x >>
    ELSE IF Head(sorted)[1] <= x[1]
         THEN << Head(sorted) >> \o InsertByKey(Tail(sorted), x)
         ELSE << x >> \o sorted

RECURSIVE SortPairs(_)
SortPairs(s) ==
    IF s = << >> THEN << >>
    ELSE InsertByKey(SortPairs(SubSeq(s, 1, Len(s) - 1)), s[Len(s)])

\* the items of a sequence stably sorted by the given keys (keys[i] is the key
\* of s[i])
StableSort(s, keys) ==
    LET sorted == SortPairs([ i \in DOMAIN s |-> << keys[i], s[i] >> ])
    IN  [ i \in DOMAIN sorted |-> sorted[i][2] ]

\* the rows of  game_history JOIN placements JOIN players  in rowid order of
\* placements, then ORDER BY gh.date, pl.placement (the sort keeps the scan
\* order of rows with equal keys)
JoinedRows ==
    LET keep(r) == r.game_id \in DOMAIN game_history /\ r.player_id \in PlayerIds
        rows == SelectSeq(placements, keep)
        full == [ i \in DOMAIN rows |->
                    [ id |-> rows[i].game_id,
                      date |-> game_history[rows[i].game_id],
                      name |-> players[rows[i].player_id].name,
                      placement |-> rows[i].placement ] ]
        byPlacement == StableSort(full, [ i \in DOMAIN full |-> full[i].placement ])
    IN  StableSort(byPlacement, [ i \in DOMAIN byPlacement |-> byPlacement[i].date ])

\* the game ids of a row sequence in order of first appearance
RECURSIVE FirstSeen(_, _)
FirstSeen(rows, seen) ==
    IF rows = << >> THEN << >>
    ELSE IF Head(rows).id \in seen THEN FirstSeen(Tail(rows), seen)
         ELSE << Head(rows).id >> \o FirstSeen(Tail(rows), seen \cup { Head(rows).id })

\* get_game_history_db: the games, each with its (name, placement) list,
\* sorted by date descending
get_game_history_db ==
    LET rows == JoinedRows
        ids  == FirstSeen(rows, {})
        OfGame(g) == LET mine(r) == r.id = g
                         rs == SelectSeq(rows, mine)
                     IN  [ i \in DOMAIN rs |-> << rs[i].name, rs[i].placement >> ]
        games == [ i \in DOMAIN ids |->
                     [ id |-> ids[i], date |-> game_history[ids[i]],
                       placements |-> OfGame(ids[i]) ] ]
    IN  StableSort(games, [ i \in DOMAIN games |-> 0 - games[i].date ])

\* get_all_players_db: the rows ORDER BY name, as a sequence of ids
RECURSIVE IdsByName(_)
IdsByName(i) ==
    IF i > Len(NameOrder) THEN << >>
    ELSE (IF IdsOfName(NameOrder[i]) = {} THEN << >>
          ELSE << CHOOSE id \in IdsOfName(NameOrder[i]) : TRUE >>)
         \o IdsByName(i + 1)

get_all_players_db == IdsByName(1)

\* update_player_db: UPDATE players SET ... WHERE id = ? (no row: no effect)
update_player_db(tbl, p, last_played_date) ==
    IF p.id \in DOMAIN tbl
    THEN [ tbl EXCEPT ![p.id] =
             [ @ EXCEPT !.rating = p.rating, !.rd = p.rd,
                        !.volatility = p.volatility,
                        !.last_played_date = last_played_date,
                        !.games = p.games ] ]
    ELSE tbl

\* --- gui.py: loading ------------------------------------------------------

\* add_match_ui's all_players_map: name -> Player built from the stored row
LoadPlayers ==
    [ n \in { players[id].name : id \in PlayerIds } |->
        LET id == CHOOSE i \in IdsOfName(n) : TRUE
            r  == players[id]
        IN  Player(id, n, r.rating, r.rd, r.volatility, r.last_played_date,
                   r.season_start, r.games) ]

\* the (player, placement) pairs add_match_ui keeps: the slots whose name is
\* a stored player
RECURSIVE KnownSlots(_, _)
KnownSlots(form, known) ==
    IF form = << >> THEN << >>
    ELSE IF Head(form)[1] \in known
         THEN << Head(form) >> \o KnownSlots(Tail(form), known)
         ELSE KnownSlots(Tail(form), known)

HasDuplicate(pl) == Cardinality(PlNames(pl)) # Len(pl)

\* ------------------------------------------------------------------------
\* Init
\* ------------------------------------------------------------------------

Init ==
    /\ players = << >>
    /\ game_history = << >>
    /\ placements = << >>
    /\ next_player_id = 1
    /\ next_game_id = 1
    /\ pc = "idle"
    /\ req = NoReq
    /\ mem = NoMem
    /\ status = ""
    /\ edits = 0

\* ------------------------------------------------------------------------
\* add_player
\* ------------------------------------------------------------------------

\* add_player_db: INSERT with last_played_date NULL, games 0
add_player_db(name, rating, rd, volatility, season_start) ==
    [ id \in PlayerIds \cup { next_player_id } |->
        IF id = next_player_id
        THEN [ name |-> name, rating |-> rating, rd |-> rd,
               volatility |-> volatility, last_played_date |-> NoDate,
               season_start |-> season_start, games |-> 0 ]
        ELSE players[id] ]

\* add_player with the i-th input (a removed player is not added again)
AddPlayer(i) ==
    /\ pc = "idle"
    /\ i <= next_player_id
    /\ LET inp == AddPlayerInputs[i]
       IN  /\ i = next_player_id \/ IdsOfName(inp.name) # {}
           /\ req' = [ op |-> "add_player", name |-> inp.name ]
           /\ IF IdsOfName(inp.name) # {}
              THEN /\ status' = "Player already exists."
                   /\ UNCHANGED << players, next_player_id >>
              ELSE /\ players' = add_player_db(inp.name, inp.rating, inp.rd,
                                               inp.volatility, SessionDay)
                   /\ next_player_id' = next_player_id + 1
                   /\ status' = "Player added successfully."
    /\ pc' = "respond"
    /\ UNCHANGED << game_history, placements, next_game_id, mem, edits >>

\* ------------------------------------------------------------------------
\* add_match_ui
\* ------------------------------------------------------------------------

\* the user submits a match form
SubmitMatch(form, date) ==
    /\ pc = "idle"
    /\ next_game_id <= MaxMatches
    /\ pc' = "add_match_ui"
    /\ req' = [ op |-> "add_match_ui", form |-> form, date |-> date ]
    /\ UNCHANGED << players, game_history, placements, next_player_id,
                    next_game_id, mem, status, edits >>

\* the placements list add_match_ui builds from the form
FormPlacements == KnownSlots(req.form, DOMAIN LoadPlayers)

\* game_players after process_game, in the order of the placements list
PlayersIn(after, pl) == [ i \in DOMAIN pl |-> after[pl[i][1]] ]

GamePlayers(pl, date) == PlayersIn(process_game(LoadPlayers, pl, date), pl)

\* add_match_ui up to and including process_game: nothing is written yet
AddMatchUi ==
    /\ pc = "add_match_ui"
    /\ LET pl == FormPlacements
       IN  IF Len(pl) < 2
           THEN /\ status' = "A match must have at least 2 players."
                /\ pc' = "respond"
                /\ mem' = mem
           ELSE IF HasDuplicate(pl)
           THEN /\ status' = "Error: A player cannot be entered more than once in the same match."
                /\ pc' = "respond"
                /\ mem' = mem
           ELSE IF ProcessRaises(LoadPlayers, pl, req.date)
           THEN /\ status' = "ValueError"
                /\ pc' = "respond"
                /\ mem' = mem
           ELSE /\ status' = status
                /\ pc' = "add_match_db"
                /\ mem' = [ players |-> GamePlayers(pl, req.date),
                            placements |-> pl, idx |-> 1, game_id |-> 0 ]
    /\ UNCHANGED << players, game_history, placements, next_player_id,
                    next_game_id, req, edits >>

\* add_match_db: the game row and its placement rows, one commit; game_id is
\* cursor.lastrowid
AddMatchDb ==
    /\ pc = "add_match_db"
    /\ game_history' = [ g \in DOMAIN game_history \cup { next_game_id } |->
                           IF g = next_game_id THEN req.date ELSE game_history[g] ]
    /\ next_game_id' = next_game_id + 1
    /\ placements' = placements \o
         [ i \in DOMAIN mem.placements |->
             [ game_id |-> next_game_id,
               player_id |-> CHOOSE id \in IdsOfName(mem.placements[i][1]) : TRUE,
               placement |-> mem.placements[i][2] ] ]
    /\ mem' = [ mem EXCEPT !.game_id = next_game_id ]
    /\ pc' = "update_player_db"
    /\ UNCHANGED << players, next_player_id, req, status, edits >>

\* one pass of the loop  p.games += 1; update_player_db(...)  (one commit)
UpdatePlayerDb ==
    /\ pc = "update_player_db"
    /\ LET p == mem.players[mem.idx]
       IN  players' = update_player_db(players, [ p EXCEPT !.games = @ + 1 ], req.date)
    /\ IF mem.idx = Len(mem.players)
       THEN /\ pc' = "respond"
            /\ status' = "Match processed."
       ELSE /\ pc' = pc
            /\ status' = status
    /\ mem' = [ mem EXCEPT !.idx = @ + 1 ]
    /\ UNCHANGED << game_history, placements, next_player_id, next_game_id,
                    req, edits >>

\* the handler returns its message
Respond ==
    /\ pc = "respond"
    /\ pc' = "idle"
    /\ req' = NoReq
    /\ mem' = NoMem
    /\ status' = ""
    /\ UNCHANGED << players, game_history, placements, next_player_id,
                    next_game_id, edits >>

\* ------------------------------------------------------------------------
\* recalculate_all_ratings_and_stats, delete_match, remove_player
\* ------------------------------------------------------------------------

\* (variant) the history is replayed as get_game_history_db returns it
ReplayHistoryUnsorted == get_game_history_db

\* the history in replay order: get_game_history_db, then sort by date
ReplayHistory ==
    LET history == get_game_history_db
    IN  StableSort(history, [ i \in DOMAIN history |-> history[i].date ])

\* (variant) the simulation starts from the stored rating, RD and volatility
sim_players_stored ==
    [ n \in { players[id].name : id \in PlayerIds } |->
        LET id == CHOOSE i \in IdsOfName(n) : TRUE
        IN  Player(id, n, players[id].rating, players[id].rd,
                   players[id].volatility, players[id].season_start,
                   players[id].season_start, 0) ]

\* sim_players: every stored player reset to the defaults
sim_players ==
    [ n \in { players[id].name : id \in PlayerIds } |->
        LET id == CHOOSE i \in IdsOfName(n) : TRUE
        IN  Player(id, n, 1500000, 350000, 60000, players[id].season_start,
                   players[id].season_start, 0) ]

\* what the replay loop does to the participants after process_game
AfterGame(sim, pl, game_date) ==
    [ n \in DOMAIN sim |->
        IF n \in PlNames(pl)
        THEN [ sim[n] EXCEPT !.games = @ + 1, !.last_played_date = game_date ]
        ELSE sim[n] ]

\* the replay loop from game k on: the players it ends with, and whether
\* process_game raised on the way
RECURSIVE Replay(_, _, _)
Replay(sim, history, k) ==
    IF k > Len(history) THEN [ raised |-> FALSE, sim |-> sim ]
    ELSE LET game == history[k]
             pl   == KnownSlots(game.placements, DOMAIN sim)
         IN  IF Len(pl) < 2 THEN Replay(sim, history, k + 1)
             ELSE IF ProcessRaises(sim, pl, game.date)
             THEN [ raised |-> TRUE, sim |-> sim ]
             ELSE Replay(AfterGame(process_game(sim, pl, game.date), pl, game.date),
                         history, k + 1)

\* sim_players.values() after the replay, in the order of get_all_players_db
SimValues(sim) ==
    LET ids == get_all_players_db
    IN  [ i \in DOMAIN ids |-> sim[players[ids[i]].name] ]

\* delete_match_db
delete_match_db(game_id) ==
    [ g \in DOMAIN game_history \ { game_id } |-> game_history[g] ]

\* remove_player_db
remove_player_db(name) ==
    [ id \in PlayerIds \ IdsOfName(name) |-> players[id] ]

\* delete_match up to the recalculation
DeleteMatch(game_id) ==
    /\ pc = "idle"
    /\ edits < MaxEdits
    /\ edits' = edits + 1
    /\ game_history' = delete_match_db(game_id)
    /\ req' = [ op |-> "delete_match", id |-> game_id ]
    /\ pc' = "recalculate"
    /\ UNCHANGED << players, placements, next_player_id, next_game_id, mem, status >>

\* remove_player up to the recalculation
RemovePlayer(name) ==
    /\ pc = "idle"
    /\ edits < MaxEdits
    /\ edits' = edits + 1
    /\ players' = remove_player_db(name)
    /\ req' = [ op |-> "remove_player", name |-> name ]
    /\ pc' = "recalculate"
    /\ UNCHANGED << game_history, placements, next_player_id, next_game_id, mem, status >>

\* (variant) the players are written in the same step as the replay
RecalculateFromWriting(r) ==
    /\ pc = "recalculate"
    /\ IF r.raised
       THEN /\ status' = "ValueError"
            /\ players' = players
       ELSE /\ status' = "Ratings recalculated."
            /\ players' = [ id \in PlayerIds |->
                              LET p == r.sim[players[id].name]
                              IN  [ players[id] EXCEPT
                                      !.rating = p.rating, !.rd = p.rd,
                                      !.volatility = p.volatility,
                                      !.last_played_date = p.last_played_date,
                                      !.games = p.games ] ]
    /\ pc' = "respond"
    /\ UNCHANGED << game_history, placements, next_player_id, next_game_id,
                    req, mem, edits >>

\* recalculate_all_ratings_and_stats from the end of the replay r to its
\* first write
RecalculateFrom(r) ==
    /\ pc = "recalculate"
    /\ IF r.raised
       THEN /\ status' = "ValueError"
            /\ pc' = "respond"
            /\ mem' = mem
       ELSE IF PlayerIds = {}
       THEN /\ status' = "Ratings recalculated."
            /\ pc' = "respond"
            /\ mem' = mem
       ELSE /\ status' = status
            /\ pc' = "recalculate_write"
            /\ mem' = [ players |-> SimValues(r.sim), placements |-> << >>,
                        idx |-> 1, game_id |-> 0 ]
    /\ UNCHANGED << players, game_history, placements, next_player_id,
                    next_game_id, req, edits >>

\* recalculate_all_ratings_and_stats up to its first write
Recalculate == RecalculateFrom(Replay(sim_players, ReplayHistory, 1))

\* one pass of the final loop of the recalculation (one commit)
RecalculateWrite ==
    /\ pc = "recalculate_write"
    /\ LET p == mem.players[mem.idx]
       IN  players' = update_player_db(players, p, p.last_played_date)
    /\ IF mem.idx = Len(mem.players)
       THEN /\ pc' = "respond"
            /\ status' = "Ratings recalculated."
       ELSE /\ pc' = pc
            /\ status' = status
    /\ mem' = [ mem EXCEPT !.idx = @ + 1 ]
    /\ UNCHANGED << game_history, placements, next_player_id, next_game_id,
                    req, edits >>

\* the handler stops between two commits (a write raises, the process ends)
Fail ==
    /\ pc \in { "add_match_db", "update_player_db", "recalculate", "recalculate_write" }
    /\ pc' = "down"
    /\ UNCHANGED << players, game_history, placements, next_player_id,
                    next_game_id, req, mem, status, edits >>

DeleteIds == 1 .. (MaxMatches + 1)

Next ==
    \/ \E i \in DOMAIN AddPlayerInputs : AddPlayer(i)
    \/ \E form \in MatchInputs, date \in MatchDates : SubmitMatch(form, date)
    \/ AddMatchUi
    \/ AddMatchDb
    \/ UpdatePlayerDb
    \/ \E game_id \in DeleteIds : DeleteMatch(game_id)
    \/ \E name \in Names : RemovePlayer(name)
    \/ Recalculate
    \/ RecalculateWrite
    \/ Respond
    \/ Fail

Spec == Init /\ [][Next]_vars

\* ------------------------------------------------------------------------
\* Properties
\* ------------------------------------------------------------------------

\* the permutations of 1..n
Perms(n) == { f \in [ 1 .. n -> 1 .. n ] : \A i, j \in 1 .. n : f[i] = f[j] => i = j }

\* process_game has just run in add_match_ui and nothing is written yet
Processed == pc = "add_match_db"

\* C1: whatever the order in which the (participant, placement) pairs of a
\* match are listed and processed, process_game leaves every participant
\* with the same rating, RD, volatility, last-played date and games-today
\* counter.
C1_OrderIndependent ==
    Processed =>
        \A f \in Perms(Len(mem.placements)) :
            LET pl    == [ i \in DOMAIN mem.placements |-> mem.placements[f[i]] ]
                after == process_game(LoadPlayers, pl, req.date)
            IN  \A i \in DOMAIN mem.placements :
                    after[mem.placements[i][1]] = mem.players[i]

\* a three-player match has been processed and moved a rating
C1_Witness ==
    /\ Processed
    /\ Len(mem.placements) = 3
    /\ \E i \in DOMAIN mem.placements :
          mem.players[i].rating # LoadPlayers[mem.placements[i][1]].rating

\* C2: every participant's update is computed from the opponents' (mu, phi)
\* as they are after the decay step and before any participant is updated:
\* the result of the sequential loop is the update of each decayed
\* participant against the outcomes taken from the decayed players.
C2_SnapshotDiscipline ==
    Processed =>
        LET pl       == mem.placements
            decayed  == decay_all(LoadPlayers, pl, req.date)
            snapshot == calculate_outcomes(pl, decayed, Len(pl))
        IN  \A i \in DOMAIN pl :
                LET p  == decayed[pl[i][1]]
                    sc == to_glicko2_scale(p)
                    q  == update_player_ratings(p, sc[1], sc[2], snapshot[i],
                                                TRUE, Len(pl), pl)
                IN  /\ mem.players[i].rating = q.rating
                    /\ mem.players[i].rd = q.rd
                    /\ mem.players[i].volatility = q.volatility

\* a match has been processed in which the decay step changed the RD of a
\* participant who is listed after another one (so that its opponent was
\* updated before it)
C2_Witness ==
    /\ Processed
    /\ \E i \in DOMAIN mem.placements :
          /\ i > 1
          /\ decay_all(LoadPlayers, mem.placements, req.date)[mem.placements[i][1]].rd
                # LoadPlayers[mem.placements[i][1]].rd
          /\ mem.players[1].rating # LoadPlayers[mem.placements[1][1]].rating

\* add_match_ui has written the match and every participant
MatchStored ==
    pc = "respond" /\ req.op = "add_match_ui" /\ status = "Match processed."

\* C3: after a match has been processed, the participants that share a
\* placement rank have the same rating and the same RD.
C3_TiedShareRatingAndRd ==
    MatchStored =>
        \A i, j \in DOMAIN mem.placements :
            mem.placements[i][2] = mem.placements[j][2] =>
                /\ players[mem.players[i].id].rating = players[mem.players[j].id].rating
                /\ players[mem.players[i].id].rd = players[mem.players[j].id].rd

RdInBounds(rd) == 30000 <= rd /\ rd <= 350000

VolatilityInBounds(volatility) == 30000 <= volatility /\ volatility <= 150000

\* C4: after the decay step and after the match update of a participant, its
\* RD lies in [30, 350] and its volatility in [0.03, 0.15].
C4_RdAndVolatilityInBounds ==
    Processed =>
        \A i \in DOMAIN mem.placements :
            /\ RdInBounds(decay_all(LoadPlayers, mem.placements,
                                    req.date)[mem.placements[i][1]].rd)
            /\ RdInBounds(mem.players[i].rd)
            /\ VolatilityInBounds(mem.players[i].volatility)

\* the stored row of participant i of the running add_match_ui holds the
\* state the handler computed for it
NewStateStored(i) ==
    LET p == mem.players[i]
    IN  /\ p.id \in PlayerIds
        /\ players[p.id].rating = p.rating
        /\ players[p.id].rd = p.rd
        /\ players[p.id].volatility = p.volatility
        /\ players[p.id].last_played_date = req.date
        /\ players[p.id].games = p.games + 1

\* C5: when add_match_ui has ended, by returning or by failing, the store
\* holds either the match record and every participant's new state, or
\* neither the record nor any participant's new state.
C5_AllOrNothing ==
    (req.op = "add_match_ui" /\ pc \in { "respond", "down" }) =>
        \/ /\ mem.game_id \in DOMAIN game_history
           /\ \A i \in DOMAIN mem.players : NewStateStored(i)
        \/ /\ mem.game_id \notin DOMAIN game_history
           /\ \A i \in DOMAIN mem.players : ~NewStateStored(i)

\* the messages add_match_ui rejects a form with
RejectMessages ==
    { "A match must have at least 2 players.",
      "Error: A player cannot be entered more than once in the same match." }

\* C6: a submitted match with fewer than 2 participants, or with a
\* participant listed twice, gets no further than the rejection: the handler
\* returns an error message, and neither processes nor stores anything.
C6_MalformedRejected ==
    (req.op = "add_match_ui" /\ (Len(req.form) < 2 \/ HasDuplicate(req.form))) =>
        \/ pc = "add_match_ui"
        \/ pc = "respond" /\ status \in RejectMessages

\* C7: no match with a placement rank outside [1, N] is processed or stored.
C7_RanksInRange ==
    (Processed \/ pc = "update_player_db" \/ MatchStored) =>
        \A i \in DOMAIN mem.placements :
            mem.placements[i][2] \in 1 .. Len(mem.placements)

\* C8: a submitted match that names a participant with no stored record is
\* not processed with the remaining participants, and nothing is stored.
C8_UnknownParticipantRejected ==
    (req.op = "add_match_ui"
        /\ \E i \in DOMAIN req.form : IdsOfName(req.form[i][1]) = {}) =>
        pc \in { "add_match_ui", "respond" } /\ status # "Match processed."

\* the players table after the writes of a recalculation that ended with
\* the simulated players ps
RECURSIVE WriteAll(_, _, _)
WriteAll(tbl, ps, i) ==
    IF i > Len(ps) THEN tbl
    ELSE WriteAll(update_player_db(tbl, ps[i], ps[i].last_played_date), ps, i + 1)

\* a recalculation has run to its end
Recalculated ==
    /\ pc = "respond"
    /\ req.op \in { "delete_match", "remove_player" }
    /\ status = "Ratings recalculated."

\* C10: recalculate_all_ratings_and_stats is idempotent: once it has run,
\* running it again on the unchanged history leaves every stored player
\* record as it is.
C10_RecalculateIdempotent ==
    Recalculated =>
        LET r == Replay(sim_players, ReplayHistory, 1)
        IN  /\ ~r.raised
            /\ WriteAll(players, SimValues(r.sim), 1) = players

\* a recalculation has run that replayed a match and left someone with a
\* rating other than the default
C10_Witness ==
    /\ Recalculated
    /\ \E id \in PlayerIds : players[id].games > 0 /\ players[id].rating # 1500000
    /\ \E id \in PlayerIds : players[id].games = 0

\* a stored match on the given date lists the stored player of that name
PlayedOn(name, date) ==
    \E k \in DOMAIN placements :
        /\ placements[k].game_id \in DOMAIN game_history
        /\ game_history[placements[k].game_id] = date
        /\ placements[k].player_id \in IdsOfName(name)

\* the participants of the match add_match_ui has just processed, as
\* process_game tests them (after its decay loop)
Starting == decay_all(LoadPlayers, mem.placements, req.date)

\* C11: when a match on date d is processed, a participant's games-today
\* counter (as process_game tests it) is 0 if and only if no earlier
\* processed match on date d included that participant.
C11_GamesTodayCounts ==
    Processed =>
        \A i \in DOMAIN mem.placements :
            (Starting[mem.placements[i][1]].games_today = 0)
                <=> ~PlayedOn(mem.placements[i][1], req.date)

\* the replay of recalculate_all_ratings_and_stats has just run and nothing is
\* written yet
Replayed == pc = "recalculate_write" /\ mem.idx = 1

\* game k of the replay: the simulated players before it, the entries it is
\* processed with, and the players process_game leaves
SimBefore(k) == Replay(sim_players, SubSeq(ReplayHistory, 1, k - 1), 1).sim

ReplaySlots(k) == KnownSlots(ReplayHistory[k].placements, DOMAIN sim_players)

SimAfter(k) == process_game(SimBefore(k), ReplaySlots(k), ReplayHistory[k].date)

\* game k of the replay is processed
Replays(k) ==
    /\ Len(ReplaySlots(k)) >= 2
    /\ ~ProcessRaises(SimBefore(k), ReplaySlots(k), ReplayHistory[k].date)

\* n takes part in game k of the replay after an earlier game of the same date
LaterToday(k, n) ==
    /\ Replays(k)
    /\ n \in PlNames(ReplaySlots(k))
    /\ SimBefore(k)[n].games_today > 0
    /\ SimBefore(k)[n].last_played_date = ReplayHistory[k].date

\* the rating-only nudge of n in game k, on the internal scale:
\* (RD/S)^2 * sum of g(phi_opp) * (outcome - E)
Nudge(k, n) ==
    LET pl == ReplaySlots(k)
        i  == CHOOSE j \in DOMAIN pl : pl[j][1] = n
        sc == to_glicko2_scale(SimBefore(k)[n])
    IN  MulU(MulU(sc[2], sc[2]),
             performance(sc[1],
                 calculate_outcomes(pl, decay_all(SimBefore(k), pl, ReplayHistory[k].date),
                                    Len(pl))[i]))

\* C12: a participant whose games-today counter is greater than 0 before a
\* match still has its rating changed by the lightweight nudge, so the rating
\* moves whenever some outcome differs from its expected score.
C12_LaterGameNudges ==
    Replayed =>
        \A k \in DOMAIN ReplayHistory : \A n \in DOMAIN sim_players :
            LaterToday(k, n) =>
                SimAfter(k)[n].rating - SimBefore(k)[n].rating
                    = RoundMilli(MulU(Nudge(k, n), SCALING_FACTOR))

\* C13: a participant whose games-today counter is greater than 0 before a
\* match on its last played date keeps its RD and its volatility exactly.
C13_LaterGameKeepsRdAndVolatility ==
    Replayed =>
        \A k \in DOMAIN ReplayHistory : \A n \in DOMAIN sim_players :
            LaterToday(k, n) =>
                /\ SimAfter(k)[n].rd = SimBefore(k)[n].rd
                /\ SimAfter(k)[n].volatility = SimBefore(k)[n].volatility

\* the replay has processed a second game of a day for a participant whose
\* opponent in it, playing its first game of that day, had its RD changed
C13_Witness ==
    /\ Replayed
    /\ \E k \in DOMAIN ReplayHistory : \E n, o \in DOMAIN sim_players :
          /\ LaterToday(k, n)
          /\ o \in PlNames(ReplaySlots(k))
          /\ SimBefore(k)[o].games_today = 0
          /\ SimAfter(k)[o].rd # SimBefore(k)[o].rd

\* every entry of the processed match carries the same place
AllShareOneRank ==
    \A i, j \in DOMAIN mem.placements : mem.placements[i][2] = mem.placements[j][2]

\* the outcomes calculate_outcomes has computed for the processed match
Outcomes == calculate_outcomes(mem.placements, Starting, Len(mem.placements))

\* C14: in a processed match whose participants all share one placement rank
\* (any rank in [1, N]), calculate_outcomes gives the outcome score 0.5 for
\* every ordered pair of distinct participants.
C14_SharedRankScoresHalf ==
    (Processed /\ AllShareOneRank
        /\ mem.placements[1][2] \in 1 .. Len(mem.placements)) =>
        \A i \in DOMAIN Outcomes : \A j \in DOMAIN Outcomes[i] :
            Outcomes[i][j].outcome = U \div 2

\* C15: in a processed match whose participants all share one placement rank
\* and all have the same rating and RD before it, the full update changes no
\* participant's rating.
C15_EqualPriorsKeepRating ==
    (Processed /\ AllShareOneRank
        /\ \A i, j \in DOMAIN mem.placements :
              /\ LoadPlayers[mem.placements[i][1]].rating
                    = LoadPlayers[mem.placements[j][1]].rating
              /\ LoadPlayers[mem.placements[i][1]].rd
                    = LoadPlayers[mem.placements[j][1]].rd) =>
        \A i \in DOMAIN mem.placements :
            mem.players[i].rating = LoadPlayers[mem.placements[i][1]].rating

\* C16: in every processed match the outcome score of every ordered pair of
\* distinct participants lies in [0, 1].
C16_OutcomesInUnitInterval ==
    Processed =>
        \A i \in DOMAIN Outcomes : \A j \in DOMAIN Outcomes[i] :
            0 <= Outcomes[i][j].outcome /\ Outcomes[i][j].outcome <= U

\* 250 * sqrt(N - 1) rating points, in millionths
RatingCap(n) == MulU(MAX_RATING_CHANGE, SqrtU((n - 1) * U))

\* the rating moved by no more than the cap of an n-player match (ratings are
\* kept in thousandths, so to the nearest thousandth)
WithinCap(before, after, n) == Abs(after - before) * 1000 <= RatingCap(n) + 1000

\* C17: after any single match with N participants, processed by add_match_ui
\* or in the replay, every participant's rating differs from its rating
\* before the match by at most 250 * sqrt(N - 1) rating points.
C17_RatingChangeCapped ==
    /\ Processed =>
          \A i \in DOMAIN mem.placements :
              WithinCap(LoadPlayers[mem.placements[i][1]].rating,
                        mem.players[i].rating, Len(mem.placements))
    /\ Replayed =>
          \A k \in DOMAIN ReplayHistory : \A n \in DOMAIN sim_players :
              Replays(k) =>
                  WithinCap(SimBefore(k)[n].rating, SimAfter(k)[n].rating,
                            Len(ReplaySlots(k)))

\* a match with ranks in [1, N] has been processed in which the cap held a
\* rating back: a participant's rating moved by the cap of the match
C17_Witness ==
    /\ Processed
    /\ \A i \in DOMAIN mem.placements :
          mem.placements[i][2] \in 1 .. Len(mem.placements)
    /\ \E i \in DOMAIN mem.placements :
          Abs(mem.players[i].rating - LoadPlayers[mem.placements[i][1]].rating) * 1000
              >= RatingCap(Len(mem.placements)) - 1000

\* the loaded players, each participant whose last played date is not the
\* match date decayed once
DecayedOnce ==
    [ n \in DOMAIN LoadPlayers |->
        IF n \in PlNames(mem.placements)
              /\ LoadPlayers[n].last_played_date # req.date
        THEN update_rd_for_inactivity(LoadPlayers[n], req.date)
        ELSE LoadPlayers[n] ]

\* C18: in a process_game call the inactivity decay is applied to each
\* participant at most once, only when the match date differs from its last
\* played date, and to all participants before any outcome is computed or
\* any update applied: what the call leaves is the update loop run on the
\* players decayed in that way, with the outcomes computed from them.
C18_DecayOnceBeforeOutcomes ==
    Processed =>
        \A i \in DOMAIN mem.placements :
            mem.players[i] =
                update_loop(DecayedOnce, mem.placements,
                            calculate_outcomes(mem.placements, DecayedOnce,
                                               Len(mem.placements)),
                            req.date, 1)[mem.placements[i][1]]

\* a match has been processed in which the decay changed the RD of one
\* participant and passed over another, who had played on that date
C18_Witness ==
    /\ Processed
    /\ \E i, j \in DOMAIN mem.placements :
          /\ LoadPlayers[mem.placements[i][1]].last_played_date = req.date
          /\ LoadPlayers[mem.placements[j][1]].last_played_date # req.date
          /\ DecayedOnce[mem.placements[j][1]].rd
                # LoadPlayers[mem.placements[j][1]].rd

\* C19: the inactivity decay never lowers uncertainty and completes without
\* error: for every participant with RD <= 350 and every match date, also one
\* earlier than its last played date, the RD after the decay step is at least
\* the RD before it.
C19_DecayNeverLowersRd ==
    /\ (req.op = "add_match_ui" /\ pc = "respond") => status # "ValueError"
    /\ Processed =>
          \A i \in DOMAIN mem.placements :
              LoadPlayers[mem.placements[i][1]].rd <= 350000 =>
                  Starting[mem.placements[i][1]].rd
                      >= LoadPlayers[mem.placements[i][1]].rd

\* the stored player takes part in a match of the stored history
InHistory(id) ==
    \E k \in DOMAIN placements :
        /\ placements[k].game_id \in DOMAIN game_history
        /\ placements[k].player_id = id

\* C20: a stored player's rating, RD and volatility change only through the
\* processing of a match in which the player takes part: a step that changes
\* them is add_match_ui's write for a participant of its match, or the write
\* of a re-derivation for a player who appears in the remaining history; the
\* values of a player who appears in no match are left as they were created.
C20_OnlyMatchesChangeRatings ==
    [][\A id \in PlayerIds \cap DOMAIN players' :
          (\/ players'[id].rating # players[id].rating
           \/ players'[id].rd # players[id].rd
           \/ players'[id].volatility # players[id].volatility) =>
              \/ pc = "update_player_db" /\ mem.players[mem.idx].id = id
              \/ pc = "recalculate_write" /\ InHistory(id)]_vars

\* C21: once delete_match_db(id) has completed, the store holds no placement
\* row whose game_id is id.
C21_DeleteRemovesPlacements ==
    req.op = "delete_match" =>
        \A k \in DOMAIN placements : placements[k].game_id # req.id

\* C22: recalculate_all_ratings_and_stats writes nothing until every match of
\* the history has been replayed in memory: no step taken before its write
\* phase, an interruption or a failure included, changes a stored player
\* record.
C22_ReplayWritesNothing ==
    [][pc = "recalculate" => players' = players]_vars

\* a recalculation was interrupted before its write phase, and the replay it
\* was to run gives a stored player other values than the stored ones
C22_Witness ==
    /\ pc = "down"
    /\ req.op \in { "delete_match", "remove_player" }
    /\ mem = NoMem
    /\ WriteAll(players, SimValues(Replay(sim_players, ReplayHistory, 1).sim), 1)
           # players

\* the stored games with at least one placement row of a stored player
JoinedGames ==
    { g \in DOMAIN game_history :
        \E k \in DOMAIN placements :
            placements[k].game_id = g /\ placements[k].player_id \in PlayerIds }

\* C23: recalculate_all_ratings_and_stats starts every player from the
\* defaults (1500, 350, 0.06) and processes the stored matches in
\* chronological order: no match is processed before a match with an earlier
\* date, and every stored match with at least 2 remaining participants is
\* processed exactly once.
C23_ReplayChronologicalFromDefaults ==
    Replayed =>
        /\ \A n \in DOMAIN sim_players :
              /\ SimBefore(1)[n].rating = 1500000
              /\ SimBefore(1)[n].rd = 350000
              /\ SimBefore(1)[n].volatility = 60000
        /\ \A i, j \in DOMAIN ReplayHistory :
              i < j => ReplayHistory[i].date <= ReplayHistory[j].date
        /\ \A g \in JoinedGames :
              Cardinality({ k \in DOMAIN ReplayHistory : ReplayHistory[k].id = g }) = 1
        /\ \A k \in DOMAIN ReplayHistory :
              /\ ReplayHistory[k].id \in JoinedGames
              /\ Len(ReplaySlots(k)) >= 2 => Replays(k)
        /\ mem.players = SimValues(Replay(sim_players, ReplayHistory, 1).sim)

\* the replay has processed two matches of which the one stored first has
\* the later date
C23_Witness ==
    /\ Replayed
    /\ \E i, j \in DOMAIN ReplayHistory :
          /\ ReplayHistory[i].date < ReplayHistory[j].date
          /\ ReplayHistory[i].id > ReplayHistory[j].id
          /\ Replays(i)
          /\ Replays(j)

\* the variance estimate update_player_ratings uses for entry i of the
\* processed match, and the estimate without the tie term,
\* 1 / sum(g^2 * E * (1 - E))
VUsed(i) ==
    estimated_v(to_glicko2_scale(Starting[mem.placements[i][1]])[1], Outcomes[i],
                Len(mem.placements), mem.placements)

VUntied(i) ==
    v_from(g_phis(Outcomes[i]),
           to_glicko2_scale(Starting[mem.placements[i][1]])[1], Outcomes[i], 0)

\* some participants of the processed match are tied
SomeTied ==
    \E i, j \in DOMAIN mem.placements :
        i # j /\ mem.placements[i][2] = mem.placements[j][2]

\* C24: when some participants of a match are tied, the variance estimate v
\* of a full update is the untied estimate 1 / sum(g^2 * E * (1 - E))
\* multiplied by (1 + tieFactor) (to a thousandth), so v with ties is never
\* smaller than without ties.
C24_TiesScaleVarianceUp ==
    (Processed /\ SomeTied) =>
        \A i \in DOMAIN mem.placements :
            /\ Abs(VUsed(i) - MulU(VUntied(i),
                                   U + tie_factor(Len(mem.placements), mem.placements)))
                   <= 1000
            /\ VUsed(i) >= VUntied(i)

\* every stored player was created with the default parameters, no match was
\* deleted and no player removed, and the matches were submitted in
\* non-decreasing date order
DefaultsInDateOrder ==
    /\ pc = "idle"
    /\ edits = 0
    /\ \A id \in PlayerIds :
          \E i \in DOMAIN AddPlayerInputs :
              /\ AddPlayerInputs[i].name = players[id].name
              /\ AddPlayerInputs[i].rating = 1500000
              /\ AddPlayerInputs[i].rd = 350000
              /\ AddPlayerInputs[i].volatility = 60000
    /\ \A g, h \in DOMAIN game_history :
          g < h => game_history[g] <= game_history[h]

\* C25: after matches submitted one by one through add_match_ui in
\* non-decreasing date order to players created with default parameters, the
\* stored rating, RD and volatility of every player are the values that
\* recalculate_all_ratings_and_stats derives from the stored history.
C25_StoredEqualsRederived ==
    DefaultsInDateOrder =>
        \A id \in PlayerIds :
            LET p == Replay(sim_players, ReplayHistory, 1).sim[players[id].name]
            IN  /\ players[id].rating = p.rating
                /\ players[id].rd = p.rd
                /\ players[id].volatility = p.volatility

\* how many matches of the stored history, as get_game_history_db returns it,
\* list the player of that name
GamesListing(name) ==
    Cardinality({ k \in DOMAIN get_game_history_db :
                    \E j \in DOMAIN get_game_history_db[k].placements :
                        get_game_history_db[k].placements[j][1] = name })

\* C28: after any sequence of add_player, add_match_ui, delete_match and
\* remove_player operations, every stored player's games count is the number
\* of matches in the stored history that list that player.
C28_GamesCountMatchesHistory ==
    pc = "idle" =>
        \A id \in PlayerIds : players[id].games = GamesListing(players[id].name)

\* ------------------------------------------------------------------------
\* update_volatility, one pass of its loop per step
\* ------------------------------------------------------------------------

\* the players whose first match calls the solver: rating, rd and volatility
\* as entered in add_player
SolverRatings == { 600000, 1000000, 1500000 }

SolverRds == { 180000, 350000 }

SolverVolatilities == { 60000, 200000, 1500000 }

\* their opponents
SolverOpponent(name) == Player(0, name, 1500000, 50000, 60000, NoDate, SessionDay, 0)

\* the matches: the player "p" first or last, against one or two opponents
SolverMatches ==
    { << <<"p", 1>>, <<"q", 2>> >>,
      << <<"q", 1>>, <<"p", 2>> >>,
      << <<"p", 1>>, <<"q", 2>>, <<"r", 3>> >>,
      << <<"q", 1>>, <<"r", 2>>, <<"p", 3>> >> }

\* the locals of update_volatility when update_player_ratings calls it for
\* "p" in the given match; seen records the values x0 has had in this call
SolverCall(rating, rd, volatility, pl) ==
    LET ps == [ n \in PlNames(pl) |->
                  IF n = "p" THEN Player(0, n, rating, rd, volatility, NoDate, SessionDay, 0)
                  ELSE SolverOpponent(n) ]
        i   == CHOOSE k \in DOMAIN pl : pl[k][1] = "p"
        res == calculate_outcomes(pl, ps, Len(pl))[i]
        sc  == to_glicko2_scale(ps["p"])
        a   == LnU(MulU(volatility, volatility))
    IN  [ phi |-> sc[2],
          v |-> estimated_v(sc[1], res, Len(pl), pl),
          delta |-> estimated_delta(sc[1], res, Len(pl), pl),
          a |-> a, x0 |-> a, seen |-> {} ]

SolverInit ==
    /\ players = << >>
    /\ game_history = << >>
    /\ placements = << >>
    /\ next_player_id = 1
    /\ next_game_id = 1
    /\ pc = "update_volatility"
    /\ req = NoReq
    /\ \E rating \in SolverRatings, rd \in SolverRds,
          volatility \in SolverVolatilities, pl \in SolverMatches :
          mem = SolverCall(rating, rd, volatility, pl)
    /\ status = ""
    /\ edits = 0

\* one pass of  while True: ... x1 = x0 - h1 / h2; if abs(x1 - x0) < EPSILON:
\* return math.exp(x1 / 2); x0 = x1
NewtonIterate ==
    /\ pc = "update_volatility"
    /\ LET x1 == NewtonStep(mem.phi, mem.v, mem.delta, mem.a, mem.x0)
       IN  IF Abs(x1 - mem.x0) < EPSILON
           THEN /\ pc' = "returned"
                /\ mem' = [ mem EXCEPT !.x0 = x1 ]
           ELSE /\ pc' = pc
                /\ mem' = [ mem EXCEPT !.x0 = x1, !.seen = @ \cup { mem.x0 } ]
    /\ UNCHANGED << players, game_history, placements, next_player_id,
                    next_game_id, req, status, edits >>

SolverNext == NewtonIterate

\* the loop runs on as long as it has not returned
SolverSpec == SolverInit /\ [][SolverNext]_vars /\ WF_vars(NewtonIterate)

\* C9: update_volatility always terminates: its loop never comes back to a
\* value of x0 it has already left (each pass is a function of x0 alone, so a
\* loop that comes back to one runs without bound and never returns).
C9_SolverTerminates == pc = "update_volatility" => mem.x0 \notin mem.seen

\* ------------------------------------------------------------------------
\* glicko2_calculator.py: the command-line variant, manual mode and undo
\* ------------------------------------------------------------------------

\* how many games manual mode is used for
MaxCliGames == 2

\* the players players.json holds when the program starts
CliNames == { "a", "b", "c" }

\* the games the user enters in manual mode: select_players yields at least
\* 2 distinct players and input_placements places in 1 .. len(players)
CliMatches ==
    { << <<"a", 1>>, <<"b", 2>> >>,
      << <<"b", 1>>, <<"a", 2>> >>,
      << <<"a", 1>>, <<"b", 1>> >>,
      << <<"c", 1>>, <<"a", 2>> >>,
      << <<"a", 1>>, <<"b", 2>>, <<"c", 3>> >> }

\* save_players: what a players file keeps of every player (games_today is
\* not saved)
save_players(all_players) ==
    [ n \in DOMAIN all_players |->
        [ name |-> n, rating |-> all_players[n].rating, rd |-> all_players[n].rd,
          volatility |-> all_players[n].volatility,
          last_played_date |-> all_players[n].last_played_date,
          season_start |-> all_players[n].season_start ] ]

\* load_players, and the same loop in undo_last_game: Player objects built
\* from a players file
load_players(file) ==
    [ n \in DOMAIN file |->
        Player(0, n, file[n].rating, file[n].rd, file[n].volatility,
               file[n].last_played_date, file[n].season_start, 0) ]

\* save_game_history: the game appended to the history file
save_game_history(history, game_date, pl) ==
    Append(history, [ date |-> game_date, placements |-> pl ])

\* the program's state: the list all_players and the three files
\* (backup_json is << >> while players_backup.json does not exist)
CliState(all_players, players_json, backup_json, history_json) ==
    [ all_players |-> all_players, players_json |-> players_json,
      backup_json |-> backup_json, history_json |-> history_json ]

CliInit ==
    /\ players = << >>
    /\ game_history = << >>
    /\ placements = << >>
    /\ next_player_id = 1
    /\ next_game_id = 1
    /\ pc = "menu"
    /\ req = NoReq
    /\ mem = LET file == [ n \in CliNames |->
                             [ name |-> n, rating |-> 1500000, rd |-> 350000,
                               volatility |-> 60000, last_played_date |-> SessionDay,
                               season_start |-> SessionDay ] ]
             IN  CliState(load_players(file), file, << >>, << >>)
    /\ status = ""
    /\ edits = 0

\* mode 'manual': the backup is written, the game processed and appended to
\* the history, the players saved
ManualGame(pl, game_date) ==
    /\ pc = "menu"
    /\ Len(mem.history_json) < MaxCliGames
    /\ req' = [ op |-> "manual", after |-> req.op ]
    /\ IF ProcessRaises(mem.all_players, pl, game_date)
       THEN /\ pc' = "crashed"
            /\ status' = "ValueError"
            /\ mem' = [ mem EXCEPT !.backup_json = save_players(mem.all_players) ]
       ELSE /\ pc' = pc
            /\ status' = "Ratings After Game"
            /\ mem' = CliState(process_game(mem.all_players, pl, game_date),
                               save_players(process_game(mem.all_players, pl, game_date)),
                               save_players(mem.all_players),
                               save_game_history(mem.history_json, game_date, pl))
    /\ UNCHANGED << players, game_history, placements, next_player_id,
                    next_game_id, edits >>

\* the loop 'Reprocess remaining games' of undo_last_game from game k on: each
\* game is processed by process_game, which appends it to the history file
RECURSIVE Reprocess(_, _, _, _)
Reprocess(all_players, history, k, file) ==
    IF k > Len(history)
    THEN [ raised |-> FALSE, all_players |-> all_players, file |-> file ]
    ELSE LET game == history[k]
             pl   == KnownSlots(game.placements, DOMAIN all_players)
         IN  IF pl = << >> THEN Reprocess(all_players, history, k + 1, file)
             ELSE IF ProcessRaises(all_players, pl, game.date)
             THEN [ raised |-> TRUE, all_players |-> all_players, file |-> file ]
             ELSE Reprocess(process_game(all_players, pl, game.date), history, k + 1,
                            save_game_history(file, game.date, pl))

\* undo_last_game once the backup and a non-empty history are read: r is what
\* the reprocessing of the history without its last game ends with
UndoFrom(r) ==
    /\ IF r.raised
       THEN /\ pc' = "crashed"
            /\ status' = "ValueError"
            /\ mem' = [ mem EXCEPT !.all_players = r.all_players,
                                   !.history_json = r.file ]
       ELSE /\ pc' = pc
            /\ status' = "Last game undone and ratings updated."
            /\ mem' = CliState(r.all_players, save_players(r.all_players),
                               mem.backup_json, r.file)

\* mode 'undo'
UndoLastGame ==
    /\ pc = "menu"
    /\ req' = [ op |-> "undo", after |-> req.op ]
    /\ IF mem.backup_json = << >>
       THEN /\ status' = "No backup found. Cannot undo."
            /\ UNCHANGED << pc, mem >>
       ELSE IF mem.history_json = << >>
       THEN /\ status' = "No games to undo."
            /\ UNCHANGED << pc, mem >>
       ELSE UndoFrom(Reprocess(load_players(mem.backup_json),
                               SubSeq(mem.history_json, 1, Len(mem.history_json) - 1), 1,
                               SubSeq(mem.history_json, 1, Len(mem.history_json) - 1)))
    /\ UNCHANGED << players, game_history, placements, next_player_id,
                    next_game_id, edits >>

CliNext ==
    \/ \E pl \in CliMatches, game_date \in MatchDates : ManualGame(pl, game_date)
    \/ UndoLastGame

CliSpec == CliInit /\ [][CliNext]_vars

\* undo_last_game has just run to its end
Undone == req.op = "undo" /\ status = "Last game undone and ratings updated."

\* C26: when undo_last_game succeeds on a non-empty history, the stored game
\* history is the history before the undo without its last game: no other
\* game is added, removed or duplicated.
C26_UndoRemovesLastGameOnly ==
    [][(req'.op = "undo" /\ status' = "Last game undone and ratings updated.") =>
          mem'.history_json
              = SubSeq(mem.history_json, 1, Len(mem.history_json) - 1)]_vars

\* C27: a game processed in manual mode and then undone leaves every player
\* with the rating, RD and volatility it had immediately before that game
\* was processed (the values manual mode wrote to the backup).
C27_UndoRestoresRatings ==
    (Undone /\ req.after = "manual") =>
        \A n \in DOMAIN mem.all_players :
            /\ mem.all_players[n].rating = mem.backup_json[n].rating
            /\ mem.all_players[n].rd = mem.backup_json[n].rd
            /\ mem.all_players[n].volatility = mem.backup_json[n].volatility

====
